---- MODULE Spec2Model ----
(***************************************************************************)
(* The approval-gated turn loop of the coding agent (src/agent.py): the    *)
(* session drivers run_interactive and run_single_query, the LangGraph     *)
(* workflow built by                                                       *)
(* create_graph (setup -> agent -> {tools, approval_check, END}) and the   *)
(* node functions agent_node, should_continue, approval_check_node and     *)
(* tools_node.  The language model is an oracle: each invocation returns   *)
(* either a text answer or a list of tool calls, or raises.                *)
(*                                                                         *)
(* Text is modelled as a sequence of one-character strings so that         *)
(* str.lower() and str.strip() are computed, not assumed.  An Optional     *)
(* value is a sequence of length 0 (None) or 1.                            *)
(***************************************************************************)
EXTENDS Naturals, Sequences, FiniteSets, TLC

VARIABLES
    state,                           \* run_interactive's local `state` (the session state the driver holds)
    messages,                        \* graph channel: transcript (add_messages reducer)
    pending_changes,                 \* graph channel: the plan
    awaiting_modification_approval,  \* graph channel
    awaiting_push_approval,          \* graph channel
    modification_approved,           \* graph channel
    push_approved,                   \* graph channel
    user_feedback,                   \* graph channel: Optional text
    aliased,                         \* the channel's plan list is the very list object state["pending_changes"] holds
    pc,                              \* where control is: "input", "setup", "agent", "tools", "approval_check", "end", "quit"
    steps,                           \* supersteps taken by the running graph.invoke
    turns,                           \* inputs the driver has accepted
    rounds,                          \* oracle responses with tool calls so far
    typed,                           \* the line input() returned last, before .strip()
    executed,                        \* the tool calls the step just taken executed (their side effects happened)
    node,                            \* the handler that took the last step
    branch,                          \* the return statement that handler left through
    opened,                          \* per gate: transcript length when the gate last entered AWAITING
    fresh,                           \* the session started from create_initial_state()
    before,                          \* the gates, the plan and the feedback as the last step found them
    driver,                          \* which driver runs the graph: "interactive" (run_interactive) or "query" (run_single_query)
    invoked,                         \* the plan the driver's state held when it last called graph.invoke
    handed,                          \* what agent_node last put around the transcript for the oracle: head and tail
    disk,                            \* the tool calls that wrote a file, in order
    original,                        \* generate_unified_diff's argument `original`
    modified,                        \* generate_unified_diff's argument `modified`
    diff,                            \* what generate_unified_diff returned (Optional)
    resolved                         \* transcript length when the modification gate was last approved or rejected (0: never)

vars == <<state, messages, pending_changes, awaiting_modification_approval,
          awaiting_push_approval, modification_approved, push_approved,
          user_feedback, aliased, pc, steps, turns, rounds, typed, executed,
          node, branch, opened, fresh, before, driver, invoked, handed, disk, original, modified, diff, resolved>>

channels == <<messages, pending_changes, awaiting_modification_approval,
              awaiting_push_approval, modification_approved, push_approved,
              user_feedback>>

(***************************************************************************)
(* Bounds of the model.                                                    *)
(***************************************************************************)
MaxTurns == 2          \* inputs the driver accepts in one session
MaxToolRounds == 1     \* oracle responses with tool calls in one session
MaxCalls == 2          \* tool calls in one oracle response
MaxToolStep == 3       \* the oracle asks for tools only within this many supersteps of a turn
MaxInitPlan == 1       \* plan entries a session may already hold when the model starts

(***************************************************************************)
(* Program constants.                                                      *)
(***************************************************************************)
RECURSION_LIMIT == 100

None == <<>>
Some(x) == <<x>>

(***************************************************************************)
(* str.lower() and str.strip() on sequences of characters.                 *)
(***************************************************************************)
UpperChars == <<"A","B","C","D","E","F","G","H","I","J","K","L","M",
                "N","O","P","Q","R","S","T","U","V","W","X","Y","Z">>
LowerChars == <<"a","b","c","d","e","f","g","h","i","j","k","l","m",
                "n","o","p","q","r","s","t","u","v","w","x","y","z">>
Whitespace == {" ", "\t", "\n"}

lower_char(c) ==
    IF \E i \in DOMAIN UpperChars : UpperChars[i] = c
    THEN LowerChars[CHOOSE i \in DOMAIN UpperChars : UpperChars[i] = c]
    ELSE c

lower(s) == IF s = <<>> THEN <<>> ELSE [i \in 1..Len(s) |-> lower_char(s[i])]

RECURSIVE lstrip(_)
lstrip(s) ==
    IF s = <<>> THEN <<>>
    ELSE IF Head(s) \in Whitespace THEN lstrip(Tail(s)) ELSE s

RECURSIVE rstrip(_)
rstrip(s) ==
    IF s = <<>> THEN <<>>
    ELSE IF s[Len(s)] \in Whitespace THEN rstrip(SubSeq(s, 1, Len(s) - 1)) ELSE s

strip(s) == rstrip(lstrip(s))


(***************************************************************************)
(* Messages of the transcript and tool calls.                              *)
(***************************************************************************)
HumanMessage(content) ==
    [type |-> "human", content |-> content, tool_calls |-> <<>>,
     tool_call_id |-> 0, result |-> "none"]

AIMessage(calls) ==
    [type |-> "ai", content |-> <<>>, tool_calls |-> calls,
     tool_call_id |-> 0, result |-> "none"]

\* result: what the tool returned, as ToolNode serialises it into the message
\*   "change" a JSON object with a "diff" key, "error" a JSON object without
\*   one, "text" a plain string (not JSON); "committed" and "written" are the
\*   success strings of git_commit and write_file.
ToolMessage(id, result) ==
    [type |-> "tool", content |-> <<>>, tool_calls |-> <<>>,
     tool_call_id |-> id, result |-> result]

\* A message agent_node builds for the oracle only: the system prompt
\* (kind "prompt"), the reminder of the pending changes (kind
\* "pending_changes", about the plan) or of the push (kind "push", about the
\* branch).  The kind stands in the result field.
SystemMessage(kind, about) ==
    [type |-> "system", content |-> about, tool_calls |-> <<>>,
     tool_call_id |-> 0, result |-> kind]

ToolCall(name, id) == [name |-> name, id |-> id]

\* The reducer of the messages channel: the update is appended.
add_messages_overwriting(left, right) == right
add_messages(left, right) == left \o right

\* The tool result parsed back by tools_node and kept in the plan.
PendingChange(name, id) == [tool |-> name, call |-> id, diff |-> TRUE]

\* The tools of ALL_TOOLS the oracle asks for in the model.
ToolNames == {"write_file", "git_push", "git_commit", "modify_python_code"}

modification_tools_and_read_file ==
    {"modify_python_code", "add_import", "add_function",
     "modify_task", "add_task", "modify_variable", "modify_yaml_file", "read_file"}
modification_tools ==
    {"modify_python_code", "add_import", "add_function",
     "modify_task", "add_task", "modify_variable", "modify_yaml_file"}

\* The tools of ALL_TOOLS that are not wrapped by safe_tool and run code
\* outside a try block: an exception raised there leaves the tool.
unguarded_tools == {"modify_task", "add_task", "modify_variable", "modify_yaml_file"}

\* What a tool can return: the modification tools return a dict (with a diff,
\* or with an error) or an error string (from safe_tool, or from ToolNode
\* when it handles the exception of an unguarded tool); git_commit returns
\* its success string ("committed") or an error string; read_file returns
\* the text of the file, which may itself be a JSON object with a "diff"
\* key; the other file and git tools return strings.
ResultKinds == {"change", "error", "text", "committed", "written"}

ToolResults(name) ==
    IF name \in modification_tools THEN {"change", "error", "text"}
    ELSE IF name = "git_commit" THEN {"committed", "text"}
    ELSE IF name = "read_file" THEN {"change", "text"}
    ELSE IF name = "write_file" THEN {"written", "text"}
    ELSE {"text"}

\* The call wrote a file: write_file that reports success has; the
\* modification tools read the file and return the change as data.
writes_file_when_proposing(name, result) == result \in {"written", "change"}
writes_file(name, result) == name = "write_file" /\ result = "written"

\* The calls of a tool step that wrote a file, in call order.
RECURSIVE written(_, _)
written(calls, results) ==
    IF calls = <<>> THEN <<>>
    ELSE (IF writes_file(Head(calls).name, Head(results))
          THEN <<[tool |-> Head(calls).name, call |-> Head(calls).id]>> ELSE <<>>)
         \o written(Tail(calls), Tail(results))

(***************************************************************************)
(* Vocabularies.                                                           *)
(***************************************************************************)
MOD_APPROVE ==
    { <<"a","p","p","r","o","v","e">>, <<"y","e","s">>,
      <<"p","r","o","c","e","e","d">>, <<"o","k">>,
      <<"g","o"," ","a","h","e","a","d">>, <<"l","g","t","m">> }

MOD_REJECT ==
    { <<"r","e","j","e","c","t">>, <<"n","o">>,
      <<"c","a","n","c","e","l">>, <<"a","b","o","r","t">> }

PUSH_APPROVE_as_modification ==
    { <<"a","p","p","r","o","v","e">>, <<"y","e","s">>,
      <<"p","r","o","c","e","e","d">>, <<"o","k">>,
      <<"g","o"," ","a","h","e","a","d">>, <<"l","g","t","m">> }
PUSH_APPROVE ==
    { <<"p","u","s","h">>, <<"y","e","s">>, <<"p","r","o","c","e","e","d">>,
      <<"o","k">>, <<"g","o"," ","a","h","e","a","d">> }

PUSH_REJECT ==
    { <<"c","a","n","c","e","l">>, <<"n","o">>, <<"s","k","i","p">>,
      <<"a","b","o","r","t">> }

EXIT_WORDS_without_q == { <<"q","u","i","t">>, <<"e","x","i","t">> }
EXIT_WORDS == { <<"q","u","i","t">>, <<"e","x","i","t">>, <<"q">> }

(***************************************************************************)
(* The session state: the dict a node receives, and the one the driver     *)
(* holds.                                                                  *)
(***************************************************************************)
AgentState(m, p, am, ap, ma, pa, uf) ==
    [messages |-> m, pending_changes |-> p,
     awaiting_modification_approval |-> am, awaiting_push_approval |-> ap,
     modification_approved |-> ma, push_approved |-> pa, user_feedback |-> uf]

create_initial_state == AgentState(<<>>, <<>>, FALSE, FALSE, FALSE, FALSE, None)

\* The dict the running graph hands to a node: the channel values.
ChannelState ==
    AgentState(messages, pending_changes, awaiting_modification_approval,
               awaiting_push_approval, modification_approved, push_approved,
               user_feedback)

\* The channels as a step finds them.
Snapshot ==
    [messages |-> messages,
     pending_changes |-> pending_changes,
     awaiting_modification_approval |-> awaiting_modification_approval,
     awaiting_push_approval |-> awaiting_push_approval,
     modification_approved |-> modification_approved,
     push_approved |-> push_approved,
     user_feedback |-> user_feedback]

\* A node returns a dict of updates; a key it does not name keeps its value.
Updated(update, key, old) == IF key \in DOMAIN update THEN update[key] ELSE old

NoUpdate == [k \in {} |-> FALSE]

(***************************************************************************)
(* approval_check_node: the return statement taken (at) and the dict       *)
(* returned (ret).                                                         *)
(***************************************************************************)
\* msg.content.lower().strip()
normalize_strip_only(content) == strip(content)
normalize(content) == strip(lower(content))

\* Position of the last HumanMessage of the transcript, 0 when there is none.
last_human(msgs) ==
    LET H == {i \in DOMAIN msgs : msgs[i].type = "human"}
    IN  IF H = {} THEN 0 ELSE CHOOSE i \in H : \A j \in H : j <= i

last_user_message(msgs) ==
    IF last_human(msgs) = 0 THEN None
    ELSE Some(normalize(msgs[last_human(msgs)].content))

\* The dicts approval_check_node returns.
modification_approve_clearing ==
    [modification_approved |-> TRUE, awaiting_modification_approval |-> FALSE,
     pending_changes |-> <<>>]
modification_approve_resolving_push ==
    [modification_approved |-> TRUE, awaiting_modification_approval |-> FALSE,
     push_approved |-> TRUE, awaiting_push_approval |-> FALSE]
modification_approve_update ==
    [modification_approved |-> TRUE, awaiting_modification_approval |-> FALSE]

modification_reject_keeping ==
    [modification_approved |-> FALSE, awaiting_modification_approval |-> FALSE]
modification_reject_still_awaiting ==
    [modification_approved |-> FALSE, awaiting_modification_approval |-> TRUE,
     pending_changes |-> <<>>]
modification_reject_update ==
    [modification_approved |-> FALSE, awaiting_modification_approval |-> FALSE,
     pending_changes |-> <<>>]

push_approve_update == [push_approved |-> TRUE, awaiting_push_approval |-> FALSE]

push_reject_update == [push_approved |-> FALSE, awaiting_push_approval |-> FALSE]

feedback_update(text) == [user_feedback |-> Some(text)]

approval_check_node(s) ==
    LET lum == last_user_message(s.messages)
    IN  IF lum = None \/ lum[1] = <<>>
        THEN [at |-> "no_user_message", ret |-> NoUpdate]
        ELSE IF s.awaiting_modification_approval
        THEN IF lum[1] \in MOD_APPROVE
             THEN [at |-> "mod_approve", ret |-> modification_approve_update]
             ELSE IF lum[1] \in MOD_REJECT
             THEN [at |-> "mod_reject", ret |-> modification_reject_update]
             ELSE [at |-> "mod_feedback", ret |-> feedback_update(lum[1])]
        ELSE IF s.awaiting_push_approval
        THEN IF lum[1] \in PUSH_APPROVE
             THEN [at |-> "push_approve", ret |-> push_approve_update]
             ELSE IF lum[1] \in PUSH_REJECT
             THEN [at |-> "push_reject", ret |-> push_reject_update]
             ELSE [at |-> "push_feedback", ret |-> feedback_update(lum[1])]
        ELSE [at |-> "no_gate", ret |-> NoUpdate]

(***************************************************************************)
(* agent_node: the list handed to agent.invoke.  The list is local: the    *)
(* node returns the response alone.                                        *)
(***************************************************************************)
current_branch == None

\* The system prompt is put first unless the transcript starts with a
\* SystemMessage.
without_system_prompt(msgs) == <<>>
system_prompt(msgs) ==
    IF msgs = <<>> \/ msgs[1].type # "system"
    THEN <<SystemMessage("prompt", <<>>)>> ELSE <<>>

\* The reminders appended for the gates that are AWAITING.
reminders_modification_only(s) ==
    IF s.awaiting_modification_approval /\ s.pending_changes # <<>>
    THEN <<SystemMessage("pending_changes", s.pending_changes)>> ELSE <<>>
reminders(s) ==
    (IF s.awaiting_modification_approval /\ s.pending_changes # <<>>
     THEN <<SystemMessage("pending_changes", s.pending_changes)>> ELSE <<>>)
    \o (IF s.awaiting_push_approval
        THEN <<SystemMessage("push", current_branch)>> ELSE <<>>)

agent_node(s) == [head |-> system_prompt(s.messages), tail |-> reminders(s)]

(***************************************************************************)
(* should_continue: the conditional edge after the agent node.             *)
(***************************************************************************)
should_continue_always_checking(s) ==
    LET msgs == s.messages
        last_message == IF msgs = <<>> THEN None ELSE Some(msgs[Len(msgs)])
    IN  IF last_message # None /\ last_message[1].type = "ai"
           /\ last_message[1].tool_calls # <<>>
        THEN "tools"
        ELSE "approval_check"
should_continue(s) ==
    LET msgs == s.messages
        last_message == IF msgs = <<>> THEN None ELSE Some(msgs[Len(msgs)])
    IN  IF last_message # None /\ last_message[1].type = "ai"
           /\ last_message[1].tool_calls # <<>>
        THEN "tools"
        ELSE IF s.awaiting_modification_approval \/ s.awaiting_push_approval
        THEN "approval_check"
        ELSE "end"


(***************************************************************************)
(* tools_node.  `pending_changes = state.get("pending_changes", [])` binds *)
(* the state's own list, and list.append changes that list in place.       *)
(***************************************************************************)
\* The results of the modification-tool calls that parse to a dict with a
\* "diff" key, in call order (the loop of lines 497-508).
RECURSIVE collected_stopping(_, _)
collected_stopping(calls, results) ==
    IF calls = <<>> THEN <<>>
    ELSE IF Head(calls).name \in modification_tools /\ Head(results) = "text"
    THEN <<>>
    ELSE LET rest == collected_stopping(Tail(calls), Tail(results))
         IN  IF Head(calls).name \in modification_tools /\ Head(results) = "change"
             THEN <<PendingChange(Head(calls).name, Head(calls).id)>> \o rest
             ELSE rest
RECURSIVE collected_reversed(_, _)
collected_reversed(calls, results) ==
    IF calls = <<>> THEN <<>>
    ELSE LET rest == collected_reversed(Tail(calls), Tail(results))
         IN  IF Head(calls).name \in modification_tools /\ Head(results) = "change"
             THEN rest \o <<PendingChange(Head(calls).name, Head(calls).id)>>
             ELSE rest
RECURSIVE collected(_, _)
collected(calls, results) ==
    IF calls = <<>> THEN <<>>
    ELSE LET rest == collected(Tail(calls), Tail(results))
         IN  IF Head(calls).name \in modification_tools /\ Head(results) = "change"
             THEN <<PendingChange(Head(calls).name, Head(calls).id)>> \o rest
             ELSE rest

\* What state.get("pending_changes", []) returns at line 512, after the
\* appends of line 506: the list that was appended to.
state_plan_untouched(plan, found) == plan
state_plan_after_append(plan, found) == plan \o found

\* The dict tools_node returns (ret) and the state's plan list as the appends
\* left it (plan).
tools_node(s, results) ==
    LET calls == s.messages[Len(s.messages)].tool_calls
        result == [messages |-> [i \in 1..Len(calls) |-> ToolMessage(calls[i].id, results[i])]]
        found == collected(calls, results)
        local == s.pending_changes \o found
        in_state == state_plan_after_append(s.pending_changes, found)
    IN  IF local # in_state
        THEN [plan |-> in_state,
              ret |-> [messages |-> result.messages,
                       pending_changes |-> local,
                       awaiting_modification_approval |-> TRUE]]
        ELSE [plan |-> in_state, ret |-> result]

(***************************************************************************)
(* Inputs.                                                                 *)
(***************************************************************************)
\* Lines the human types at the prompt of run_interactive.
Lines ==
    { <<"Y","e","s">>,                 \* in both approve vocabularies, capitalised
      <<"n","o">>,                     \* in both reject vocabularies
      <<"F","i","x"," ","X">>,         \* revision feedback
      <<" "," ">>,                     \* blank
      <<"Q">>,                         \* leaves the session
      <<" ","E","x","i","t">> }        \* leaves the session

\* What the oracle can answer: a text, or 1..MaxCalls tool calls.
CallNames == UNION { [1..n -> ToolNames] : n \in 1..MaxCalls }

CallId(position, i) == position * 10 + i

\* The session states the model starts from: a new session, with or without
\* changes already in the plan, and with either gate AWAITING (the
\* modification gate over a plan that is not empty).
InitPlans ==
    { [i \in 1..n |-> PendingChange("modify_python_code", i)] : n \in 0..MaxInitPlan }

AgentStates ==
    { s \in { AgentState(<<>>, p, am, ap, FALSE, FALSE, None) :
                p \in InitPlans, am \in BOOLEAN, ap \in BOOLEAN } :
        s.awaiting_modification_approval => s.pending_changes # <<>> }

(***************************************************************************)
(* Initial states: the driver at its prompt, holding a session state.      *)
(* run_interactive starts from create_initial_state(): `fresh` marks those *)
(* behaviours.  The compiled graph takes any AgentState, and the other     *)
(* starting states are sessions in which a gate is already AWAITING, the   *)
(* states approval_check_node is written for.                              *)
(***************************************************************************)
Mirror(s) ==
    /\ messages = s.messages
    /\ pending_changes = s.pending_changes
    /\ awaiting_modification_approval = s.awaiting_modification_approval
    /\ awaiting_push_approval = s.awaiting_push_approval
    /\ modification_approved = s.modification_approved
    /\ push_approved = s.push_approved
    /\ user_feedback = s.user_feedback

\* The queries run_single_query is started with (--query); they are not stripped.
Queries == { <<"F","i","x"," ","X">>, <<"Y","e","s">> }

Init ==
    /\ driver \in {"interactive", "query"}
    /\ IF driver = "interactive"
       THEN /\ state \in AgentStates
            /\ pc = "input"
            /\ turns = 0
            /\ typed = <<>>
            /\ fresh = (state = create_initial_state)
       ELSE /\ typed \in Queries
            /\ state = [create_initial_state EXCEPT !.messages = <<HumanMessage(typed)>>]
            /\ pc = "setup"
            /\ turns = 1
            /\ fresh = TRUE
    /\ Mirror(state)
    /\ aliased = TRUE
    /\ steps = 0
    /\ rounds = 0
    /\ executed = <<>>
    /\ node = "start"
    /\ branch = "none"
    /\ opened = [mod |-> 0, push |-> 0]
    /\ before = Snapshot
    /\ invoked = state.pending_changes
    /\ handed = [head |-> <<>>, tail |-> <<>>]
    /\ disk = <<>>
    /\ resolved = 0
    /\ original = <<>>
    /\ modified = <<>>
    /\ diff = None

(***************************************************************************)
(* run_interactive: one pass of the input loop up to graph.invoke.         *)
(***************************************************************************)
Load(s) ==
    /\ messages' = s.messages
    /\ pending_changes' = s.pending_changes
    /\ awaiting_modification_approval' = s.awaiting_modification_approval
    /\ awaiting_push_approval' = s.awaiting_push_approval
    /\ modification_approved' = s.modification_approved
    /\ push_approved' = s.push_approved
    /\ user_feedback' = s.user_feedback

DriverInput ==
    /\ pc = "input"
    /\ driver = "interactive"
    /\ turns < MaxTurns
    /\ \E line \in Lines :
        LET user_input == strip(line)
        IN  /\ typed' = line
            /\ turns' = turns + 1
            /\ node' = "run_interactive"
            /\ before' = Snapshot
            /\ executed' = <<>>
            /\ IF user_input = <<>>
               THEN /\ branch' = "continue"
                    /\ UNCHANGED <<state, channels, aliased, pc, steps, rounds, invoked>>
               ELSE IF lower(user_input) \in EXIT_WORDS
               THEN /\ branch' = "break"
                    /\ pc' = "quit"
                    /\ UNCHANGED <<state, channels, aliased, steps, rounds, invoked>>
               ELSE /\ branch' = "invoke"
                    /\ state' = [state EXCEPT !.messages = Append(@, HumanMessage(user_input))]
                    /\ Load(state')
                    /\ invoked' = state.pending_changes
                    /\ aliased' = TRUE
                    /\ pc' = "setup"
                    /\ steps' = 0
                    /\ UNCHANGED rounds
    /\ UNCHANGED <<opened, fresh, driver, handed, disk, original, modified, diff, resolved>>

\* input() raises EOFError: the loop ends.
DriverEOF ==
    /\ pc = "input"
    /\ driver = "interactive"
    /\ pc' = "quit"
    /\ node' = "run_interactive"
    /\ before' = Snapshot
    /\ branch' = "eof"
    /\ executed' = <<>>
    /\ UNCHANGED <<state, channels, aliased, steps, turns, rounds, typed, opened, fresh,
                   driver, invoked, handed, disk, original, modified, diff, resolved>>

(***************************************************************************)
(* The nodes of the graph.  A node runs as one superstep; graph.invoke     *)
(* allows RECURSION_LIMIT of them.                                         *)
(***************************************************************************)
SetupNode ==
    /\ pc = "setup"
    /\ steps < RECURSION_LIMIT
    /\ pc' = "agent"
    /\ steps' = steps + 1
    /\ node' = "setup"
    /\ before' = Snapshot
    /\ branch' = "none"
    /\ executed' = <<>>
    /\ UNCHANGED <<state, channels, aliased, turns, rounds, typed, opened, fresh,
                   driver, invoked, handed, disk, original, modified, diff, resolved>>

\* agent_node returns {"messages": [response]}; should_continue picks the edge.
AgentNode ==
    /\ pc = "agent"
    /\ steps < RECURSION_LIMIT
    /\ \E response \in {AIMessage(<<>>)} \cup
            { AIMessage([i \in 1..Len(names) |-> ToolCall(names[i], CallId(Len(messages), i))]) :
                names \in IF rounds < MaxToolRounds /\ steps <= MaxToolStep
                          THEN CallNames ELSE {} } :
        /\ messages' = add_messages(messages, <<response>>)
        /\ rounds' = IF response.tool_calls # <<>> THEN rounds + 1 ELSE rounds
        /\ branch' = IF response.tool_calls # <<>> THEN "tool_calls" ELSE "text"
        /\ pc' = should_continue([ChannelState EXCEPT !.messages = messages'])
    /\ handed' = agent_node(ChannelState)
    /\ steps' = steps + 1
    /\ node' = "agent"
    /\ before' = Snapshot
    /\ executed' = <<>>
    /\ UNCHANGED <<state, pending_changes, awaiting_modification_approval,
                   awaiting_push_approval, modification_approved, push_approved,
                   user_feedback, aliased, turns, typed, opened, fresh, driver, invoked,
                   disk, original, modified, diff, resolved>>

ToolsNode ==
    /\ pc = "tools"
    /\ steps < RECURSION_LIMIT
    /\ LET calls == messages[Len(messages)].tool_calls
       IN  \E results \in [1..Len(calls) -> ResultKinds] :
            /\ \A i \in 1..Len(calls) : results[i] \in ToolResults(calls[i].name)
            /\ LET out == tools_node(ChannelState, results)
                   ret == out.ret
               IN  /\ messages' = add_messages(messages, ret.messages)
                   /\ pending_changes' = Updated(ret, "pending_changes", out.plan)
                   /\ awaiting_modification_approval' =
                          Updated(ret, "awaiting_modification_approval",
                                  awaiting_modification_approval)
                   /\ state' = IF aliased THEN [state EXCEPT !.pending_changes = out.plan]
                               ELSE state
                   /\ branch' = IF "pending_changes" \in DOMAIN ret
                                THEN "plan_updated" ELSE "result_only"
                   /\ opened' = IF awaiting_modification_approval' /\ ~awaiting_modification_approval
                                THEN [opened EXCEPT !.mod = Len(messages')]
                                ELSE opened
            /\ executed' = [i \in 1..Len(calls) |-> calls[i].name]
            /\ disk' = disk \o written(calls, results)
    /\ pc' = "agent"
    /\ steps' = steps + 1
    /\ node' = "tools"
    /\ before' = Snapshot
    /\ UNCHANGED <<awaiting_push_approval, modification_approved, push_approved,
                   user_feedback, aliased, turns, rounds, typed, fresh,
                   driver, invoked, handed, original, modified, diff, resolved>>

ApprovalCheckNode ==
    /\ pc = "approval_check"
    /\ steps < RECURSION_LIMIT
    /\ LET out == approval_check_node(ChannelState)
           ret == out.ret
       IN  /\ pending_changes' = Updated(ret, "pending_changes", pending_changes)
           /\ awaiting_modification_approval' =
                  Updated(ret, "awaiting_modification_approval", awaiting_modification_approval)
           /\ awaiting_push_approval' =
                  Updated(ret, "awaiting_push_approval", awaiting_push_approval)
           /\ modification_approved' =
                  Updated(ret, "modification_approved", modification_approved)
           /\ push_approved' = Updated(ret, "push_approved", push_approved)
           /\ user_feedback' = Updated(ret, "user_feedback", user_feedback)
           /\ aliased' = IF "pending_changes" \in DOMAIN ret THEN FALSE ELSE aliased
           /\ branch' = out.at
           /\ resolved' = IF out.at \in {"mod_approve", "mod_reject"}
                          THEN Len(messages) ELSE resolved
    /\ pc' = "agent"
    /\ steps' = steps + 1
    /\ node' = "approval_check"
    /\ before' = Snapshot
    /\ executed' = <<>>
    /\ UNCHANGED <<state, messages, turns, rounds, typed, opened, fresh,
                   driver, invoked, handed, disk, original, modified, diff>>

(***************************************************************************)
(* The driver after graph.invoke.  run_interactive: the result replaces    *)
(* the state, or the except clause keeps the state the driver holds.       *)
(* run_single_query: the answer is returned and the process ends, or the   *)
(* exception leaves run_single_query, which has no except clause.          *)
(***************************************************************************)
EndTurn ==
    /\ pc = "end"
    /\ IF driver = "interactive"
       THEN state' = ChannelState /\ pc' = "input" /\ node' = "run_interactive"
       ELSE state' = state /\ pc' = "quit" /\ node' = "run_single_query"
    /\ aliased' = TRUE
    /\ before' = Snapshot
    /\ branch' = "result"
    /\ executed' = <<>>
    /\ UNCHANGED <<channels, steps, turns, rounds, typed, opened, fresh,
                   driver, invoked, handed, disk, original, modified, diff, resolved>>

Caught(why) ==
    /\ Load(state)
    /\ aliased' = TRUE
    /\ IF driver = "interactive"
       THEN pc' = "input" /\ node' = "run_interactive"
       ELSE pc' = "crashed" /\ node' = "run_single_query"
    /\ before' = Snapshot
    /\ branch' = why
    /\ executed' = <<>>
    /\ UNCHANGED <<state, steps, turns, rounds, typed, opened, fresh,
                   driver, invoked, handed, disk, original, modified, diff, resolved>>

\* agent.invoke raises (network, authentication, rate limit).
OracleRaises ==
    /\ pc = "agent"
    /\ steps < RECURSION_LIMIT
    /\ Caught("oracle_error")

\* graph.invoke raises GraphRecursionError: the limit is reached with a node
\* still to run.
RecursionLimitReached ==
    /\ pc \in {"setup", "agent", "tools", "approval_check"}
    /\ steps >= RECURSION_LIMIT
    /\ Caught("recursion_limit")

\* tool_node.invoke raises: a tool that safe_tool does not wrap raised, and
\* ToolNode let the exception through.
ToolsRaises ==
    /\ pc = "tools"
    /\ steps < RECURSION_LIMIT
    /\ \E i \in DOMAIN messages[Len(messages)].tool_calls :
            messages[Len(messages)].tool_calls[i].name \in unguarded_tools
    /\ Caught("tool_error")

Next ==
    \/ DriverInput
    \/ DriverEOF
    \/ SetupNode
    \/ AgentNode
    \/ ToolsNode
    \/ ApprovalCheckNode
    \/ EndTurn
    \/ OracleRaises
    \/ RecursionLimitReached

Spec == Init /\ [][Next]_vars


(***************************************************************************)
(* approval_check_node on its own: the node entered in the first pass of a *)
(* turn, for every utterance of a larger set and every setting of the      *)
(* gates.  The driver has stripped the line and appended it, and the       *)
(* oracle has answered with a text.                                        *)
(***************************************************************************)
GateLines ==
    { <<"a","p","p","r","o","v","e">>, <<"y","e","s">>,
      <<"p","r","o","c","e","e","d">>, <<"o","k">>,
      <<"g","o"," ","a","h","e","a","d">>, <<"l","g","t","m">>,
      <<"r","e","j","e","c","t">>, <<"n","o">>,
      <<"c","a","n","c","e","l">>, <<"a","b","o","r","t">>,
      <<"p","u","s","h">>, <<"s","k","i","p">>,
      <<"Y","e","s">>, <<" "," ","Y","E","S"," ">>,
      <<"G","o"," ","A","h","e","a","d">>, <<"L","G","T","M">>,
      <<"\t","A","p","p","r","o","v","e">>, <<" ","N","o">>,
      <<"P","U","S","H"," ">>, <<"S","k","i","p">>, <<"R","e","j","e","c","t","\n">>,
      <<"y","e","s"," ","b","u","t"," ","f","i","x"," ","X">>,
      <<"P","l","e","a","s","e"," ","u","p","d","a","t","e"," ","F","o","o">>,
      <<"a","p","p","r","o","v","e","d">>, <<"n","o","p","e">>,
      <<"p","u","s","h"," ","i","t">>, <<"y"," ","e","s">>,
      <<"g","o"," "," ","a","h","e","a","d">>, <<"F","i","x"," ","X">> }

GateStates ==
    { s \in { AgentState(<<>>, p, am, ap, ma, pa, None) :
                p \in InitPlans, am \in BOOLEAN, ap \in BOOLEAN,
                ma \in BOOLEAN, pa \in BOOLEAN } :
        /\ s.awaiting_modification_approval => s.pending_changes # <<>>
        /\ s.awaiting_modification_approval \/ s.awaiting_push_approval }

GateInit ==
    /\ \E line \in GateLines, s \in GateStates :
        /\ typed = line
        /\ state = [s EXCEPT !.messages = <<HumanMessage(strip(line))>>]
    /\ Mirror([state EXCEPT !.messages = Append(@, AIMessage(<<>>))])
    /\ aliased = TRUE
    /\ pc = should_continue(ChannelState)
    /\ steps = 2
    /\ turns = 1
    /\ rounds = 0
    /\ executed = <<>>
    /\ node = "agent"
    /\ branch = "text"
    /\ opened = [mod |-> 0, push |-> 0]
    /\ fresh = FALSE
    /\ before = Snapshot
    /\ driver = "interactive"
    /\ invoked = state.pending_changes
    /\ handed = agent_node(state)
    /\ disk = <<>>
    /\ resolved = 0
    /\ original = <<>>
    /\ modified = <<>>
    /\ diff = None

GateNext == ApprovalCheckNode

GateSpec == GateInit /\ [][GateNext]_vars

(***************************************************************************)
(* tools_node on its own: the node entered after the oracle asked for one  *)
(* or two tools of a larger part of ALL_TOOLS, in the first pass of a      *)
(* turn, for every result the tools can return.                            *)
(***************************************************************************)
CatalogNames == ToolNames \cup {"read_file", "modify_task"}

CatalogCalls == UNION { [1..n -> CatalogNames] : n \in 1..MaxCalls }

ToolsInit ==
    /\ typed = <<"F","i","x"," ","X">>
    /\ \E names \in CatalogCalls, s \in AgentStates :
        /\ state = [s EXCEPT !.messages = <<HumanMessage(strip(typed))>>]
        /\ Mirror([state EXCEPT !.messages =
                      Append(@, AIMessage([i \in 1..Len(names) |->
                                              ToolCall(names[i], CallId(1, i))]))])
        /\ fresh = (s = create_initial_state)
    /\ aliased = TRUE
    /\ pc = "tools"
    /\ steps = 2
    /\ turns = 1
    /\ rounds = 1
    /\ executed = <<>>
    /\ node = "agent"
    /\ branch = "tool_calls"
    /\ opened = [mod |-> 0, push |-> 0]
    /\ before = Snapshot
    /\ driver = "interactive"
    /\ invoked = state.pending_changes
    /\ handed = agent_node(state)
    /\ disk = <<>>
    /\ resolved = 0
    /\ original = <<>>
    /\ modified = <<>>
    /\ diff = None

ToolsNext ==
    \/ ToolsNode
    \/ ToolsRaises

ToolsSpec == ToolsInit /\ [][ToolsNext]_vars

(***************************************************************************)
(* generate_unified_diff (src/tools/approval.py) with difflib.unified_diff *)
(* as the standard library computes it: SequenceMatcher's longest matching *)
(* blocks, the opcodes between them, three lines of context, one "@@" line *)
(* and the tagged lines.  Indices are Python's (from 0, end excluded).     *)
(* The texts of the model have fewer than seven lines, so the opcodes are  *)
(* never split into several groups, and there is no junk.                  *)
(***************************************************************************)
MaxText == 4           \* characters in a text

CONTEXT_LINES == 3

Chars == {"x", "y", "\n"}

Texts == UNION { [1..n -> Chars] : n \in 0..MaxText }

filename == <<"f">>

\* str.splitlines(keepends=True)
RECURSIVE splitlines_from(_, _)
splitlines_from(text, line) ==
    IF text = <<>> THEN (IF line = <<>> THEN <<>> ELSE <<line>>)
    ELSE IF Head(text) = "\n"
    THEN <<Append(line, "\n")>> \o splitlines_from(Tail(text), <<>>)
    ELSE splitlines_from(Tail(text), Append(line, Head(text)))

splitlines(text) == splitlines_from(text, <<>>)

\* The last line gets a "\n" when it has none.
unterminated(lines) == lines
terminated(lines) ==
    IF lines # <<>> /\ lines[Len(lines)][Len(lines[Len(lines)])] # "\n"
    THEN [lines EXCEPT ![Len(lines)] = Append(@, "\n")]
    ELSE lines

\* The value of a local variable that is assigned once: the element of a
\* set of one element.
Only(S) == CHOOSE v \in S : TRUE

\* SequenceMatcher.find_longest_match: the longest block a[i:i+k] = b[j:j+k]
\* within the ranges, the one starting earliest in a, then earliest in b.
find_longest_match(a, b, alo, ahi, blo, bhi) ==
    LET M == { m \in [i : alo..(ahi - 1), j : blo..(bhi - 1), k : 1..(ahi - alo)] :
                 /\ m.i + m.k <= ahi
                 /\ m.j + m.k <= bhi
                 /\ \A d \in 0..(m.k - 1) : a[m.i + d + 1] = b[m.j + d + 1] }
    IN  IF M = {} THEN [i |-> alo, j |-> blo, k |-> 0]
        ELSE CHOOSE m \in M : \A o \in M :
                \/ m.k > o.k
                \/ m.k = o.k /\ m.i < o.i
                \/ m.k = o.k /\ m.i = o.i /\ m.j <= o.j

\* SequenceMatcher.get_matching_blocks, without the closing sentinel.
RECURSIVE matching_blocks(_, _, _, _, _, _)
matching_blocks(a, b, alo, ahi, blo, bhi) ==
    Only({ IF m.k = 0 THEN <<>>
           ELSE (IF alo < m.i /\ blo < m.j
                 THEN matching_blocks(a, b, alo, m.i, blo, m.j) ELSE <<>>)
                \o <<m>>
                \o (IF m.i + m.k < ahi /\ m.j + m.k < bhi
                    THEN matching_blocks(a, b, m.i + m.k, ahi, m.j + m.k, bhi) ELSE <<>>) :
           m \in {find_longest_match(a, b, alo, ahi, blo, bhi)} })

get_matching_blocks(a, b) ==
    Append(matching_blocks(a, b, 0, Len(a), 0, Len(b)),
           [i |-> Len(a), j |-> Len(b), k |-> 0])

Opcode(tag, i1, i2, j1, j2) == [tag |-> tag, i1 |-> i1, i2 |-> i2, j1 |-> j1, j2 |-> j2]

\* SequenceMatcher.get_opcodes
RECURSIVE opcodes_from(_, _, _)
opcodes_from(blocks, i, j) ==
    IF blocks = <<>> THEN <<>>
    ELSE LET m == Head(blocks)
             gap == IF i < m.i /\ j < m.j THEN <<Opcode("replace", i, m.i, j, m.j)>>
                    ELSE IF i < m.i THEN <<Opcode("delete", i, m.i, j, m.j)>>
                    ELSE IF j < m.j THEN <<Opcode("insert", i, m.i, j, m.j)>>
                    ELSE <<>>
             same == IF m.k > 0
                     THEN <<Opcode("equal", m.i, m.i + m.k, m.j, m.j + m.k)>> ELSE <<>>
         IN  gap \o same \o opcodes_from(Tail(blocks), m.i + m.k, m.j + m.k)

get_opcodes(a, b) == opcodes_from(get_matching_blocks(a, b), 0, 0)

Max(x, y) == IF x >= y THEN x ELSE y
Min(x, y) == IF x <= y THEN x ELSE y

\* SequenceMatcher.get_grouped_opcodes(n): the group of opcodes with the
\* equal runs at both ends cut to n lines; no group when nothing differs.
grouped(opcodes, n) ==
    LET codes == IF opcodes = <<>>
                 THEN <<Opcode("equal", 0, 1, 0, 1)>> ELSE opcodes
        first == IF codes[1].tag = "equal"
                 THEN [codes EXCEPT ![1] = [@ EXCEPT !.i1 = Max(@, codes[1].i2 - n),
                                                     !.j1 = Max(@, codes[1].j2 - n)]]
                 ELSE codes
        last  == IF first[Len(first)].tag = "equal"
                 THEN [first EXCEPT ![Len(first)] =
                          [@ EXCEPT !.i2 = Min(@, first[Len(first)].i1 + n),
                                    !.j2 = Min(@, first[Len(first)].j1 + n)]]
                 ELSE first
    IN  IF Len(last) = 1 /\ last[1].tag = "equal" THEN <<>> ELSE last

get_grouped_opcodes(a, b, n) == Only({ grouped(codes, n) : codes \in {get_opcodes(a, b)} })

\* difflib._format_range_unified: "b" for one line, else "b,l".
format_range_unified(start, stop) ==
    LET beginning == start + 1
        length == stop - start
    IN  IF length = 1 THEN <<beginning>>
        ELSE IF length = 0 THEN <<beginning - 1, 0>>
        ELSE <<beginning, length>>

\* A line of the diff: "--- a/f", "+++ b/f", "@@ -r +r @@", or a tagged line.
DiffLine(tag, line, ranges) == [tag |-> tag, line |-> line, ranges |-> ranges]

Tagged(tag, lines, lo, hi) ==
    [n \in 1..(hi - lo) |-> DiffLine(tag, lines[lo + n], <<>>)]

\* The tags whose opcode puts lines of b into the diff.
inserted_tags_insert_only == {"insert"}
inserted_tags == {"replace", "insert"}

RECURSIVE hunk_lines(_, _, _)
hunk_lines(group, a, b) ==
    IF group = <<>> THEN <<>>
    ELSE LET op == Head(group)
         IN  (IF op.tag = "equal" THEN Tagged(" ", a, op.i1, op.i2)
              ELSE (IF op.tag \in {"replace", "delete"}
                    THEN Tagged("-", a, op.i1, op.i2) ELSE <<>>)
                   \o (IF op.tag \in inserted_tags
                       THEN Tagged("+", b, op.j1, op.j2) ELSE <<>>))
             \o hunk_lines(Tail(group), a, b)

\* difflib.unified_diff(a, b, fromfile, tofile, lineterm = "\n"); the
\* sequence stands for the lines that ''.join puts one after the other.
unified_diff(a, b, fromfile, tofile) ==
    Only({ IF group = <<>> THEN <<>>
           ELSE << DiffLine("---", fromfile, <<>>),
                   DiffLine("+++", tofile, <<>>),
                   DiffLine("@@", <<>>,
                            << format_range_unified(group[1].i1, group[Len(group)].i2),
                               format_range_unified(group[1].j1, group[Len(group)].j2) >>) >>
                \o hunk_lines(group, a, b) :
           group \in {get_grouped_opcodes(a, b, CONTEXT_LINES)} })

generate_unified_diff(orig, modif, name) ==
    Only({ unified_diff(original_lines, modified_lines,
                        <<"a", "/">> \o name, <<"b", "/">> \o name) :
           original_lines \in {terminated(splitlines(orig))},
           modified_lines \in {terminated(splitlines(modif))} })

\* A modification tool calls generate_unified_diff on the text it read and
\* the text it built.
DiffInit ==
    /\ original \in Texts
    /\ modified \in Texts
    /\ diff = None
    /\ state = create_initial_state
    /\ Mirror(state)
    /\ aliased = TRUE
    /\ pc = "tools"
    /\ steps = 2
    /\ turns = 1
    /\ rounds = 1
    /\ typed = <<>>
    /\ executed = <<>>
    /\ node = "agent"
    /\ branch = "tool_calls"
    /\ opened = [mod |-> 0, push |-> 0]
    /\ fresh = TRUE
    /\ before = Snapshot
    /\ driver = "interactive"
    /\ invoked = <<>>
    /\ handed = [head |-> <<>>, tail |-> <<>>]
    /\ disk = <<>>
    /\ resolved = 0

GenerateDiff ==
    /\ diff = None
    /\ diff' = Some(generate_unified_diff(original, modified, filename))
    /\ UNCHANGED <<state, channels, aliased, pc, steps, turns, rounds, typed, executed,
                   node, branch, opened, fresh, before, driver, invoked, handed, disk,
                   original, modified, resolved>>

DiffNext == GenerateDiff

DiffSpec == DiffInit /\ [][DiffNext]_vars

(***************************************************************************)
(* The words of the two gates as the specification of the workflow lists   *)
(* them, and the utterance of the running turn as the gate is to read it.  *)
(***************************************************************************)
ApproveWords ==
    { <<"a","p","p","r","o","v","e">>, <<"y","e","s">>,
      <<"p","r","o","c","e","e","d">>, <<"o","k">>,
      <<"g","o"," ","a","h","e","a","d">>, <<"l","g","t","m">> }

RejectWords ==
    { <<"r","e","j","e","c","t">>, <<"n","o">>,
      <<"c","a","n","c","e","l">>, <<"a","b","o","r","t">> }

PushWords ==
    { <<"p","u","s","h">>, <<"y","e","s">>, <<"p","r","o","c","e","e","d">>,
      <<"o","k">>, <<"g","o"," ","a","h","e","a","d">> }

SkipWords ==
    { <<"c","a","n","c","e","l">>, <<"n","o">>, <<"s","k","i","p">>,
      <<"a","b","o","r","t">> }

Utterance == strip(lower(typed))

\* A step of the approval check.
ApprovalStep == pc = "approval_check" /\ pc' = "agent"

\* The results the tool step just taken appended to the transcript, as
\* pending changes, in call order.
ProposedByStep ==
    LET calls == messages[Len(messages)].tool_calls
    IN  collected(calls, [i \in 1..Len(calls) |-> messages'[Len(messages) + i].result])

(***************************************************************************)
(* C1: no write_file call is executed while modification_approved is       *)
(* false (in a session started by run_interactive).                        *)
(***************************************************************************)
C1_WriteOnlyWhenApproved ==
    fresh => \A i \in DOMAIN executed :
                executed[i] = "write_file" => modification_approved

(***************************************************************************)
(* C2: no git_push call is executed while push_approved is false, whatever *)
(* the modification gate says.                                             *)
(***************************************************************************)
C2_PushOnlyWhenApproved ==
    fresh => \A i \in DOMAIN executed :
                executed[i] = "git_push" => push_approved

C4_ProposalOpensGate ==
    [][ (fresh /\ pc = "tools" /\ pc' = "agent" /\ ProposedByStep # <<>>)
            => /\ pending_changes' = pending_changes \o ProposedByStep
               /\ awaiting_modification_approval' ]_vars

(***************************************************************************)
(* C5: with the modification gate AWAITING, an utterance of the approve    *)
(* vocabulary makes the approval check set modification_approved, clear    *)
(* awaiting_modification_approval and leave the plan as it is; the step    *)
(* executes no tool.                                                       *)
(***************************************************************************)
C5_ApproveKeepsPlan ==
    (/\ node = "approval_check"
     /\ before.awaiting_modification_approval
     /\ Utterance \in ApproveWords)
        => /\ modification_approved
           /\ ~awaiting_modification_approval
           /\ pending_changes = before.pending_changes
           /\ executed = <<>>

C5_Witness ==
    /\ node = "approval_check"
    /\ before.awaiting_modification_approval
    /\ Utterance \in ApproveWords
    /\ modification_approved
    /\ ~awaiting_modification_approval
    /\ pending_changes # <<>>

(***************************************************************************)
(* C6: with the modification gate AWAITING, an utterance of the reject     *)
(* vocabulary makes the approval check clear both flags of the gate and    *)
(* empty the plan, whatever it held.                                       *)
(***************************************************************************)
C6_RejectEmptiesPlan ==
    (/\ node = "approval_check"
     /\ before.awaiting_modification_approval
     /\ Utterance \in RejectWords)
        => /\ ~awaiting_modification_approval
           /\ ~modification_approved
           /\ pending_changes = <<>>

C6_Witness ==
    /\ node = "approval_check"
    /\ before.awaiting_modification_approval
    /\ before.pending_changes # <<>>
    /\ Utterance \in RejectWords
    /\ state.pending_changes # <<>>
    /\ pending_changes = <<>>
    /\ ~awaiting_modification_approval

(***************************************************************************)
(* C7: a turn that starts with the modification gate AWAITING and an       *)
(* utterance of neither vocabulary ends with the driver's state holding    *)
(* the gate AWAITING, the plan, and the utterance as user_feedback.        *)
(***************************************************************************)
C7_FeedbackRecordedAtTurnEnd ==
    (/\ pc = "input"
     /\ node = "run_interactive"
     /\ branch \in {"result", "recursion_limit"}
     /\ state.awaiting_modification_approval
     /\ Utterance \notin ApproveWords \cup RejectWords)
        => /\ state.pending_changes # <<>>
           /\ state.user_feedback \in {Some(strip(typed)), Some(Utterance)}

(***************************************************************************)
(* C8: the feedback the approval check stores is the human message as it   *)
(* stands in the transcript.                                               *)
(***************************************************************************)
C8_FeedbackVerbatim ==
    (node = "approval_check" /\ branch \in {"mod_feedback", "push_feedback"})
        => user_feedback = Some(messages[last_human(messages)].content)

(***************************************************************************)
(* C9: with the modification gate AWAITING the approval check approves     *)
(* exactly the utterances that, trimmed and lowercased, are approve words, *)
(* rejects exactly those that are reject words, and keeps the gate         *)
(* AWAITING, storing feedback, for every other one.                        *)
(***************************************************************************)
C9_ModificationVocabulary ==
    [][ (ApprovalStep /\ awaiting_modification_approval)
            => /\ (Utterance \in ApproveWords)
                    <=> (modification_approved' /\ ~awaiting_modification_approval')
               /\ (Utterance \in RejectWords)
                    <=> (~modification_approved' /\ ~awaiting_modification_approval'
                         /\ pending_changes' = <<>>)
               /\ (Utterance \notin ApproveWords \cup RejectWords)
                    <=> (awaiting_modification_approval' /\ user_feedback' # None
                         /\ modification_approved' = modification_approved
                         /\ pending_changes' = pending_changes) ]_vars

C9_Witness ==
    /\ node = "approval_check"
    /\ typed = <<" "," ","Y","E","S"," ">>
    /\ modification_approved
    /\ ~awaiting_modification_approval

(***************************************************************************)
(* C10: with the push gate AWAITING and the modification gate not, the     *)
(* approval check approves the push exactly for the push words, rejects it *)
(* exactly for the skip words, and otherwise leaves the gate AWAITING.     *)
(***************************************************************************)
C10_PushVocabulary ==
    [][ (ApprovalStep /\ awaiting_push_approval /\ ~awaiting_modification_approval)
            => /\ (Utterance \in PushWords)
                    <=> (push_approved' /\ ~awaiting_push_approval')
               /\ (Utterance \in SkipWords)
                    <=> (~push_approved' /\ ~awaiting_push_approval')
               /\ (Utterance \notin PushWords \cup SkipWords)
                    <=> (awaiting_push_approval' /\ push_approved' = push_approved) ]_vars

C10_Witness ==
    /\ node = "approval_check"
    /\ typed = <<"L","G","T","M">>
    /\ state.awaiting_push_approval
    /\ ~state.awaiting_modification_approval
    /\ awaiting_push_approval
    /\ ~push_approved

(***************************************************************************)
(* Words for the claims below.                                             *)
(***************************************************************************)
IsPrefix(a, b) == Len(a) <= Len(b) /\ SubSeq(b, 1, Len(a)) = a

\* Control is inside graph.invoke.
InTurn == pc \in {"setup", "agent", "tools", "approval_check", "end"}

\* The tools whose results are proposals, as the workflow's specification
\* lists them.
ProposalTools ==
    {"modify_python_code", "add_import", "add_function",
     "modify_task", "add_task", "modify_variable", "modify_yaml_file"}

\* After a tool step: the calls it ran and what they returned, read back
\* from the transcript.
LastAI == CHOOSE i \in DOMAIN messages :
            /\ messages[i].type = "ai"
            /\ \A j \in DOMAIN messages : messages[j].type = "ai" => j <= i

ToolStepCalls == messages[LastAI].tool_calls

ToolStepResults == [i \in 1..Len(ToolStepCalls) |-> messages[LastAI + i].result]

\* The results that are a JSON object with a "diff" key, among the calls to
\* the given tools, in call order.
RECURSIVE WithDiff(_, _, _)
WithDiff(calls, results, tools) ==
    IF calls = <<>> THEN <<>>
    ELSE (IF Head(results) = "change" /\ Head(calls).name \in tools
          THEN <<PendingChange(Head(calls).name, Head(calls).id)>> ELSE <<>>)
         \o WithDiff(Tail(calls), Tail(results), tools)

\* After an agent step: the list that was handed to the oracle.
OracleInput == handed.head \o SubSeq(messages, 1, Len(messages) - 1) \o handed.tail

Prompts(msgs) == {i \in DOMAIN msgs : msgs[i].type = "system" /\ msgs[i].result = "prompt"}

(***************************************************************************)
(* C11: when a turn of a session in which a git_commit call succeeded      *)
(* ends, the state the driver holds has awaiting_push_approval true.       *)
(***************************************************************************)
C11_CommitOpensPushGate ==
    (/\ fresh
     /\ pc = "input"
     /\ node = "run_interactive"
     /\ branch = "result"
     /\ \E i \in DOMAIN state.messages :
            /\ i > last_human(state.messages)
            /\ state.messages[i].type = "tool"
            /\ state.messages[i].result = "committed")
        => state.awaiting_push_approval

(***************************************************************************)
(* C12: every turn completes: no call of graph.invoke ends in the          *)
(* recursion-limit error, gate AWAITING or not.                            *)
(***************************************************************************)
C12_EveryTurnCompletes ==
    node \in {"run_interactive", "run_single_query"} => branch # "recursion_limit"

(***************************************************************************)
(* C13: in a turn that starts with neither gate AWAITING and an utterance  *)
(* of an approve or reject vocabulary, the four gate flags and the         *)
(* feedback stay as the driver's state has them, the plan loses nothing,   *)
(* the approval check is not entered and the turn does not end in the      *)
(* recursion-limit error.                                                  *)
(***************************************************************************)
C13_MisuseIsNoOp ==
    (/\ InTurn \/ branch = "recursion_limit"
     /\ ~state.awaiting_modification_approval
     /\ ~state.awaiting_push_approval
     /\ Utterance \in ApproveWords \cup RejectWords \cup PushWords \cup SkipWords)
        => /\ awaiting_modification_approval = state.awaiting_modification_approval
           /\ awaiting_push_approval = state.awaiting_push_approval
           /\ modification_approved = state.modification_approved
           /\ push_approved = state.push_approved
           /\ user_feedback = state.user_feedback
           /\ IsPrefix(invoked, pending_changes)
           /\ pc # "approval_check"
           /\ branch # "recursion_limit"

C13_Witness ==
    /\ pc = "end"
    /\ node = "agent"
    /\ driver = "interactive"
    /\ invoked # <<>>
    /\ ~state.awaiting_modification_approval
    /\ ~state.awaiting_push_approval
    /\ Utterance \in ApproveWords
    /\ pending_changes = invoked
    /\ user_feedback = None

(***************************************************************************)
(* C14: an exception raised inside a tool stays in the tool step: the step *)
(* ends with a tool message last in the transcript and the next oracle     *)
(* call to come, the gates and the plan as they were.                      *)
(***************************************************************************)
C14_ToolErrorStaysInTurn ==
    branch = "tool_error"
        => /\ pc = "agent"
           /\ messages[Len(messages)].type = "tool"
           /\ [Snapshot EXCEPT !.messages = before.messages] = before

(***************************************************************************)
(* C15: after the oracle call raised, the driver is at its prompt again    *)
(* and the state it holds has the plan it had when the turn started.       *)
(***************************************************************************)
C15_OracleErrorKeepsSession ==
    branch = "oracle_error"
        => /\ pc = "input"
           /\ state.pending_changes = invoked

(***************************************************************************)
(* C16 (as stated): a tool step adds to the plan exactly the results that  *)
(* are an object with a "diff" key, whichever tool returned them.          *)
(***************************************************************************)
C16_DiffKeyAlone ==
    node = "tools"
        => pending_changes =
             before.pending_changes \o WithDiff(ToolStepCalls, ToolStepResults, CatalogNames)

(***************************************************************************)
(* C16 (amended): a tool step adds to the plan exactly the results of the  *)
(* modification tools that are an object with a "diff" key; a step with no *)
(* such result leaves the plan and the modification gate as they were.     *)
(***************************************************************************)
C16_DiffKeyOfModificationTool ==
    node = "tools"
        => /\ pending_changes =
                before.pending_changes \o WithDiff(ToolStepCalls, ToolStepResults, ProposalTools)
           /\ WithDiff(ToolStepCalls, ToolStepResults, ProposalTools) = <<>>
                => /\ pending_changes = before.pending_changes
                   /\ awaiting_modification_approval = before.awaiting_modification_approval

C16_Witness ==
    /\ node = "tools"
    /\ \E i \in DOMAIN ToolStepCalls :
            ToolStepCalls[i].name = "read_file" /\ ToolStepResults[i] = "change"
    /\ \E i \in DOMAIN ToolStepCalls :
            ToolStepCalls[i].name = "modify_task" /\ ToolStepResults[i] = "change"
    /\ Len(pending_changes) = Len(before.pending_changes) + 1

(***************************************************************************)
(* C17: the plan is in insertion order, which is call order (call ids grow *)
(* along it), and while the modification gate is AWAITING no step but a    *)
(* rejection removes or moves an entry.                                    *)
(***************************************************************************)
C17_PlanKeepsOrder ==
    /\ \A i, j \in DOMAIN pending_changes :
            i < j => pending_changes[i].call < pending_changes[j].call
    /\ (before.awaiting_modification_approval
        /\ ~(node = "approval_check" /\ branch = "mod_reject"))
            => IsPrefix(before.pending_changes, pending_changes)

C17_Witness ==
    /\ node = "tools"
    /\ before.awaiting_modification_approval
    /\ before.pending_changes # <<>>
    /\ Len(pending_changes) = Len(before.pending_changes) + 2

(***************************************************************************)
(* C18 (as stated): the list handed to the oracle has exactly one system   *)
(* prompt, in first place, and once the oracle has been invoked the        *)
(* session transcript starts with a system message.                        *)
(***************************************************************************)
C18_SystemPromptStays ==
    /\ node = "agent" => Prompts(OracleInput) = {1}
    /\ (\E i \in DOMAIN messages : messages[i].type = "ai")
            => messages[1].type = "system"

(***************************************************************************)
(* C18 (amended): the list handed to the oracle has exactly one system     *)
(* prompt, in first place, at every invocation; the prompt is built for    *)
(* the invocation and not stored: the session transcript, in the graph and *)
(* in the driver, holds no system message.                                 *)
(***************************************************************************)
C18_SystemPromptEachInvocation ==
    /\ node = "agent" => Prompts(OracleInput) = {1}
    /\ \A i \in DOMAIN messages : messages[i].type # "system"
    /\ \A i \in DOMAIN state.messages : state.messages[i].type # "system"

C18_Witness ==
    /\ node = "agent"
    /\ turns = 2
    /\ \E i \in DOMAIN state.messages : state.messages[i].type = "ai"
    /\ Prompts(OracleInput) = {1}
    /\ messages[1].type = "human"

(***************************************************************************)
(* C19: the list handed to the oracle ends with the reminders of the gates *)
(* that are AWAITING: the one of the plan for the modification gate, the   *)
(* one of the branch for the push gate (after the former when both are     *)
(* AWAITING), and no reminder when no gate is.                             *)
(***************************************************************************)
C19_RemindersForOpenGates ==
    node = "agent" =>
        LET n == Len(OracleInput)
            am == before.awaiting_modification_approval
            ap == before.awaiting_push_approval
            plan_reminder == SystemMessage("pending_changes", before.pending_changes)
            push_reminder == SystemMessage("push", current_branch)
            Reminders == {i \in 1..n : /\ OracleInput[i].type = "system"
                                       /\ OracleInput[i].result # "prompt"}
        IN  /\ (am /\ ~ap) => (OracleInput[n] = plan_reminder /\ Reminders = {n})
            /\ (ap /\ ~am) => (OracleInput[n] = push_reminder /\ Reminders = {n})
            /\ (am /\ ap) => /\ OracleInput[n] = push_reminder
                             /\ OracleInput[n - 1] = plan_reminder
                             /\ Reminders = {n - 1, n}
            /\ (~am /\ ~ap) => Reminders = {}

C19_Witness ==
    /\ node = "agent"
    /\ before.awaiting_modification_approval
    /\ before.awaiting_push_approval
    /\ Len(handed.tail) = 2
    /\ OracleInput[Len(OracleInput)].result = "push"

(***************************************************************************)
(* C20: the transcript is append-only: every node and every accepted input *)
(* leaves the transcript it found as a prefix of the one it leaves, and    *)
(* the transcript the driver holds is a prefix of the one in the graph.    *)
(***************************************************************************)
C20_TranscriptAppendOnly ==
    /\ IsPrefix(state.messages, messages)
    /\ branch \notin {"oracle_error", "recursion_limit", "tool_error"}
            => IsPrefix(before.messages, messages)

C20_Witness ==
    /\ node = "tools"
    /\ turns = 2
    /\ Len(before.messages) > 3
    /\ Len(messages) = Len(before.messages) + 2

(***************************************************************************)
(* C21: an utterance that, trimmed and lowercased, is quit, exit or q ends *)
(* the session: the driver leaves its loop, the graph is not invoked, and  *)
(* the transcript, the gates, the plan and the feedback are as they were.  *)
(***************************************************************************)
QuitWords == { <<"q","u","i","t">>, <<"e","x","i","t">>, <<"q">> }

C21_QuitEndsSession ==
    (/\ node = "run_interactive"
     /\ branch \in {"continue", "break", "invoke"}
     /\ Utterance \in QuitWords)
        => /\ branch = "break"
           /\ pc = "quit"
           /\ Snapshot = before
           /\ ChannelState = state

C21_Witness ==
    /\ node = "run_interactive"
    /\ branch = "break"
    /\ typed = <<" ","E","x","i","t">>
    /\ turns = 2
    /\ state.awaiting_modification_approval
    /\ state.pending_changes # <<>>
    /\ pc = "quit"

C23_MalformedResultSkipped ==
    (/\ node = "tools"
     /\ \E i \in DOMAIN ToolStepCalls :
            ToolStepCalls[i].name \in ProposalTools /\ ToolStepResults[i] = "text")
        => /\ pc = "agent"
           /\ awaiting_modification_approval = before.awaiting_modification_approval
           /\ awaiting_push_approval = before.awaiting_push_approval
           /\ modification_approved = before.modification_approved
           /\ push_approved = before.push_approved
           /\ user_feedback = before.user_feedback
           /\ pending_changes =
                before.pending_changes \o WithDiff(ToolStepCalls, ToolStepResults, ProposalTools)

C23_Witness ==
    /\ node = "tools"
    /\ Len(ToolStepCalls) = 2
    /\ ToolStepCalls[1].name = "modify_python_code"
    /\ ToolStepResults[1] = "text"
    /\ ToolStepCalls[2].name = "modify_task"
    /\ ToolStepResults[2] = "change"
    /\ pc = "agent"
    /\ Len(pending_changes) = Len(before.pending_changes) + 1

(***************************************************************************)
(* Applying a unified diff of one hunk to a text: the lines before the     *)
(* hunk, the hunk's context and added lines, the lines after it.           *)
(***************************************************************************)
RECURSIVE Join(_)
Join(lines) == IF lines = <<>> THEN <<>> ELSE Head(lines) \o Join(Tail(lines))

RECURSIVE NewLines(_)
NewLines(d) ==
    IF d = <<>> THEN <<>>
    ELSE (IF Head(d).tag \in {" ", "+"} THEN <<Head(d).line>> ELSE <<>>)
         \o NewLines(Tail(d))

ApplyDiff(text, d) ==
    IF d = <<>> THEN text
    ELSE LET A == splitlines(text)
             r == d[3].ranges[1]
             length == IF Len(r) = 1 THEN 1 ELSE r[2]
             start == IF length = 0 THEN r[1] + 1 ELSE r[1]
         IN  Join(SubSeq(A, 1, start - 1) \o NewLines(d)
                  \o SubSeq(A, start + length, Len(A)))

\* A text with its last line terminated.
Closed(text) == Join(terminated(splitlines(text)))

C25_EqualTextsEmptyDiff ==
    (/\ diff # None
     /\ \/ original = modified
        \/ original = Append(modified, "\n") /\ modified # <<>> /\ modified[Len(modified)] # "\n"
        \/ modified = Append(original, "\n") /\ original # <<>> /\ original[Len(original)] # "\n")
        => diff[1] = <<>>

C25_Witness ==
    /\ diff = Some(<<>>)
    /\ original = <<"x", "\n", "y">>
    /\ modified = <<"x", "\n", "y", "\n">>

\* The change was proposed after the transcript had n messages: its call id
\* is the one of a response appended at position n or later.
ProposedAfter(change, n) == change.call > n * 10

\* The branches of the approval check that belong to each gate.
ModificationBranches == {"mod_approve", "mod_reject", "mod_feedback"}
PushBranches == {"push_approve", "push_reject", "push_feedback"}

(***************************************************************************)
(* C26: in every reachable state no gate is both AWAITING and approved:    *)
(* awaiting_modification_approval and modification_approved are never both *)
(* true, nor awaiting_push_approval and push_approved, also after a tools  *)
(* step that adds a proposal to a plan that was approved earlier.          *)
(***************************************************************************)
C26_NeverAwaitingAndApproved ==
    /\ ~(awaiting_modification_approval /\ modification_approved)
    /\ ~(awaiting_push_approval /\ push_approved)

C26_Witness ==
    /\ node = "tools"
    /\ before.modification_approved
    /\ Len(pending_changes) > Len(before.pending_changes)
    /\ modification_approved
    /\ ~awaiting_modification_approval

(***************************************************************************)
(* C27: the changes of an approved plan are consumed: once the             *)
(* modification gate was approved and a change proposed after that         *)
(* approval is in the plan, the plan holds only changes proposed after it. *)
(***************************************************************************)
C27_ApprovedPlanConsumed ==
    (/\ resolved > 0
     /\ modification_approved
     /\ \E i \in 1..Len(pending_changes) : ProposedAfter(pending_changes[i], resolved))
        => \A i \in 1..Len(pending_changes) : ProposedAfter(pending_changes[i], resolved)

(***************************************************************************)
(* C28: the gates are independent.  An approval check that takes a branch  *)
(* of the modification gate leaves awaiting_push_approval and              *)
(* push_approved as they were; one that takes a branch of the push gate    *)
(* leaves awaiting_modification_approval, modification_approved and the    *)
(* plan as they were; with both gates AWAITING the step takes a branch of  *)
(* the modification gate.                                                  *)
(***************************************************************************)
C28_GatesIndependent ==
    node = "approval_check" =>
        /\ branch \in ModificationBranches =>
               /\ awaiting_push_approval = before.awaiting_push_approval
               /\ push_approved = before.push_approved
        /\ branch \in PushBranches =>
               /\ awaiting_modification_approval = before.awaiting_modification_approval
               /\ modification_approved = before.modification_approved
               /\ pending_changes = before.pending_changes
        /\ (before.awaiting_modification_approval /\ before.awaiting_push_approval)
               => branch \in ModificationBranches

C28_Witness ==
    /\ node = "approval_check"
    /\ before.awaiting_modification_approval
    /\ before.awaiting_push_approval
    /\ branch = "mod_approve"
    /\ modification_approved
    /\ awaiting_push_approval
    /\ ~push_approved

(***************************************************************************)
(* C29: one utterance resolves at most one gate.  When a turn that started *)
(* with both gates AWAITING and an utterance of both approve vocabularies  *)
(* reaches END, the modification gate is approved and the push gate is     *)
(* still AWAITING and not approved.                                        *)
(***************************************************************************)
C29_OneGatePerUtterance ==
    (/\ pc = "end"
     /\ state.awaiting_modification_approval
     /\ state.awaiting_push_approval
     /\ Utterance \in ApproveWords \cap PushWords)
        => /\ modification_approved
           /\ awaiting_push_approval
           /\ ~push_approved

(***************************************************************************)
(* C30: in every reachable state, awaiting_modification_approval implies   *)
(* that the plan is not empty.                                             *)
(***************************************************************************)
C30_AwaitingHasPlan ==
    awaiting_modification_approval => pending_changes # <<>>

C30_Witness ==
    /\ node = "approval_check"
    /\ branch = "mod_feedback"
    /\ awaiting_modification_approval
    /\ pending_changes # <<>>

====
